---- MODULE Spec2Model ----
(***************************************************************************)
(* Value resolution of the flags / parameter-store library:                *)
(*   src/src/statsig/client.ts   the client singleton, isTestEnv           *)
(*   src/src/logger.ts           the process-wide logger                   *)
(*   src/src/statsig/flags.ts    parseUrlOverrides, FlagStore              *)
(*   src/unnamed/part_001        tryCoerce, ParamStore                     *)
(*                                                                         *)
(* Every library call is synchronous.  A call action runs the whole call   *)
(* (pc: "idle" -> "returned") and leaves its arguments, what it read from  *)
(* its environment and its outcome in `call` / `result`; Return hands      *)
(* control back to the caller.                                             *)
(*                                                                         *)
(* Names (flag keys, store keys, parameter keys, query-parameter names)    *)
(* are sequences of dot-free segments: <<"fp","test_store","count">> is    *)
(* the string "fp.test_store.count".  A query string is the sequence of    *)
(* (name, value) entries URLSearchParams yields for it.                    *)
(***************************************************************************)
EXTENDS Integers, Sequences, FiniteSets, TLC

\* Longest query string (in entries) handed to a flag or parameter lookup.
MaxSearchLen == 1
\* The longest query string handed to the URL parsers on their own.
MaxQueryLen == 2

VARIABLES
  client,           \* client.ts:10   "null" or the constructed client
  testEnvDetector,  \* client.ts:11   "null" | "constTrue" | "constFalse" | "dynamic"
  currentLogger,    \* logger.ts:15   "defaultLogger" or an installed logger
  hasWindow,        \* flags.ts:17    typeof window !== 'undefined', fixed at load
  handle,           \* the ParamStoreHandle closure getStore returned last
  pc,               \* "idle" | "returned"
  call,             \* the call that returned last: arguments and environment reads
  result            \* and its outcome

vars == <<client, testEnvDetector, currentLogger, hasWindow, handle, pc, call, result>>

(***************************************************************************)
(* JavaScript values                                                       *)
(***************************************************************************)
\* A value is its kind and a payload: b for a boolean, n for a number, s for a
\* string, f (property name -> value) for an object or an array.
Value(k, b, n, str, f) == [k |-> k, b |-> b, n |-> n, s |-> str, f |-> f]
Undefined == Value("undefined", FALSE, 0, "", <<>>)
Null      == Value("null", FALSE, 0, "", <<>>)
Bool(b)   == Value("boolean", b, 0, "", <<>>)
Num(n)    == Value("number", FALSE, n, "", <<>>)
Str(str)  == Value("string", FALSE, 0, str, <<>>)
Obj(f)    == Value("object", FALSE, 0, "", f)
Arr(f)    == Value("array", FALSE, 0, "", f)
EmptyObj  == Obj(<<>>)

\* ToBoolean
Truthy(x) ==
  CASE x.k = "undefined" -> FALSE
    [] x.k = "null"      -> FALSE
    [] x.k = "boolean"   -> x.b
    [] x.k = "number"    -> x.n # 0
    [] x.k = "string"    -> x.s # ""
    [] OTHER             -> TRUE

\* obj[name] of an object: undefined when it has no such property.
Prop(obj, name) ==
  IF name \in DOMAIN obj.f THEN obj.f[name] ELSE Undefined

\* A query-string entry, and the `search` option (absent, or a string).
Entry(name, raw) == [name |-> name, value |-> raw]
NoSearch == [given |-> FALSE, entries |-> <<>>]
Search(entries) == [given |-> TRUE, entries |-> entries]

SeqsUpTo(S, n) == UNION {[1..m -> S] : m \in 0..n}

(***************************************************************************)
(* logger.ts                                                               *)
(***************************************************************************)
Loggers == {"defaultLogger", "customLogger"}

getLogger == currentLogger

(***************************************************************************)
(* client.ts                                                               *)
(***************************************************************************)
NotInitialized == "[@lovart-open/statsig] Not initialized. Call initStatsigClient() first."

\* `let client: StatsigClient | null = null`: no client yet.
NullClient == [clientKey |-> "null"]

\* new StatsigClient(clientKey, user, statsigOptions)
StatsigClient(clientKey) == [clientKey |-> clientKey]

\* getStatsigClientSync(): the client, or a throw when there is none.
getStatsigClientSync ==
  IF client = NullClient
    THEN [kind |-> "throw", error |-> NotInitialized]
    ELSE [kind |-> "return", client |-> client]

\* isTestEnv() with a missing detector read as "test environment".
isTestEnv_DefaultTrue(dyn) ==
  CASE testEnvDetector = "constTrue"  -> TRUE
    [] testEnvDetector = "constFalse" -> FALSE
    [] testEnvDetector = "dynamic"    -> dyn
    [] OTHER                          -> TRUE

\* isTestEnv(): testEnvDetector?.() ?? false.  `dyn` is what a caller-supplied
\* predicate function returns when it is evaluated now.
isTestEnv(dyn) ==
  CASE testEnvDetector = "null"       -> FALSE
    [] testEnvDetector = "constTrue"  -> TRUE
    [] testEnvDetector = "constFalse" -> FALSE
    [] OTHER                          -> dyn

(***************************************************************************)
(* flags.ts                                                                *)
(***************************************************************************)
TRUE_LITERALS == {"1", "true"}

\* value.trim() without the toLowerCase().
TrimLowerCase_TrimOnly(raw) ==
  CASE raw = " TRUE " -> "TRUE"
    [] raw = " 1"     -> "1"
    [] OTHER          -> raw

\* value.trim().toLowerCase() of the raw values the model feeds in.
TrimLowerCase(raw) ==
  CASE raw = " TRUE " -> "true"
    [] raw = "True"   -> "true"
    [] raw = " 1"     -> "1"
    [] raw = "YES"    -> "yes"
    [] OTHER          -> raw

\* key.startsWith(prefix + '.')
StartsWith(name, prefix) == Len(name) >= 2 /\ name[1] = prefix

\* The for-loop of parseUrlOverrides from entry i on: a later entry for the
\* same key overwrites an earlier one.
RECURSIVE FlagOverridesFrom(_, _, _)
FlagOverridesFrom(entries, i, overrides) ==
  IF i > Len(entries) THEN overrides
  ELSE LET e == entries[i]
           next == IF StartsWith(e.name, "ff")
                     THEN (Tail(e.name) :> (TrimLowerCase(e.value) \in TRUE_LITERALS))
                          @@ overrides
                     ELSE overrides
       IN FlagOverridesFrom(entries, i + 1, next)

\* parseUrlOverrides(search): `location` is window.location.search.
parseUrlOverrides(search, location) ==
  IF ~hasWindow /\ (~search.given \/ search.entries = <<>>) THEN <<>>
  ELSE LET searchString == IF search.given THEN search.entries
                           ELSE IF hasWindow THEN location ELSE <<>>
       IN FlagOverridesFrom(searchString, 1, <<>>)

\* The registry handed to createFlagStore: the test suite's mockFlags, and
\* feature_d declaring both overrides with different values.
mockFlags ==
  (<<"feature_a">> :> [testOverride |-> Undefined, override |-> Undefined]) @@
  (<<"feature_b">> :> [testOverride |-> Bool(TRUE), override |-> Undefined]) @@
  (<<"feature_c">> :> [testOverride |-> Undefined, override |-> Bool(FALSE)]) @@
  (<<"feature_d">> :> [testOverride |-> Bool(FALSE), override |-> Bool(TRUE)])

\* options.gate, absent or a FeatureGate.
Gate(value, idType) == [value |-> value, idType |-> idType]
NoGate == [given |-> FALSE, gate |-> Gate(FALSE, Undefined)]
GivenGate(g) == [given |-> TRUE, gate |-> g]

\* What getFeatureGate does when it is called: returns a gate, or throws.
NotCalled == [o |-> "notCalled", gate |-> Gate(FALSE, Undefined)]
Throws == [o |-> "throws", gate |-> Gate(FALSE, Undefined)]
Returns(g) == [o |-> "returns", gate |-> g]

FlagState(flag, source) == [flag |-> flag, source |-> source]

\* What a resolve call hands back, with what it read on the way:
\* window.location.search, a caller-supplied isTestEnv predicate, and the
\* number of getFeatureGate calls it made.
FlagReturn(state, readLocation, ranDetector, gateCalls) ==
  [kind |-> "return", state |-> state, readLocation |-> readLocation,
   ranDetector |-> ranDetector, gateCalls |-> gateCalls]

\* Step 4 of resolve with the catch clause left out: a throw of
\* getStatsigClientSync or getFeatureGate reaches the caller.
FlagStore_remote_NoCatch(gate, provider) ==
  IF gate.given
    THEN [kind |-> "return",
          state |-> FlagState(gate.gate.value,
                      IF Truthy(gate.gate.idType) THEN "remote" ELSE "fallback"),
          gateCalls |-> 0]
  ELSE IF getStatsigClientSync.kind = "throw"
    THEN [kind |-> "throw", state |-> FlagState(FALSE, "fallback"), gateCalls |-> 0]
  ELSE IF provider.o # "returns"
    THEN [kind |-> "throw", state |-> FlagState(FALSE, "fallback"), gateCalls |-> 1]
  ELSE [kind |-> "return",
        state |-> FlagState(provider.gate.value,
                    IF Truthy(provider.gate.idType) THEN "remote" ELSE "fallback"),
        gateCalls |-> 1]

\* Step 4 of resolve, the try block and its catch:
\*   gate ?? getStatsigClientSync().getFeatureGate(keyStr, evaluationOptions)
FlagStore_remote(gate, provider) ==
  IF gate.given
    THEN [kind |-> "return",
          state |-> FlagState(gate.gate.value,
                      IF Truthy(gate.gate.idType) THEN "remote" ELSE "fallback"),
          gateCalls |-> 0]
  ELSE IF getStatsigClientSync.kind = "throw"
    THEN [kind |-> "return", state |-> FlagState(FALSE, "fallback"), gateCalls |-> 0]
  ELSE IF provider.o # "returns"
    THEN [kind |-> "return", state |-> FlagState(FALSE, "fallback"), gateCalls |-> 1]
  ELSE [kind |-> "return",
        state |-> FlagState(provider.gate.value,
                    IF Truthy(provider.gate.idType) THEN "remote" ELSE "fallback"),
        gateCalls |-> 1]

\* resolve with the URL step moved in front of the registry lookup.
FlagStore_resolve_UrlFirst(key, search, gate, location, dyn, provider) ==
  LET readLocation == hasWindow /\ ~search.given
      dynamic == testEnvDetector = "dynamic"
      urlOverrides == parseUrlOverrides(search, location)
  IN
  IF key \in DOMAIN urlOverrides
    THEN FlagReturn(FlagState(urlOverrides[key], "url"), readLocation, FALSE, 0)
  ELSE IF key \notin DOMAIN mockFlags
    THEN FlagReturn(FlagState(FALSE, "fallback"), readLocation, FALSE, 0)
  ELSE
    LET def == mockFlags[key] IN
    IF isTestEnv(dyn) /\ def.testOverride # Undefined
      THEN FlagReturn(FlagState(def.testOverride.b, "test"), readLocation, dynamic, 0)
    ELSE IF def.override # Undefined
      THEN FlagReturn(FlagState(def.override.b, "override"), readLocation, dynamic, 0)
    ELSE LET r == FlagStore_remote(gate, provider)
         IN [FlagReturn(r.state, readLocation, dynamic, r.gateCalls) EXCEPT !.kind = r.kind]

\* FlagStore.resolve(key, {gate, search}).
FlagStore_resolve(key, search, gate, location, dyn, provider) ==
  LET readLocation == hasWindow /\ ~search.given
      dynamic == testEnvDetector = "dynamic"
  IN
  IF key \notin DOMAIN mockFlags
    THEN FlagReturn(FlagState(FALSE, "fallback"), FALSE, FALSE, 0)
  ELSE
    LET def == mockFlags[key]
        urlOverrides == parseUrlOverrides(search, location)
    IN
    IF key \in DOMAIN urlOverrides
      THEN FlagReturn(FlagState(urlOverrides[key], "url"), readLocation, FALSE, 0)
    ELSE IF isTestEnv(dyn) /\ def.testOverride # Undefined
      THEN FlagReturn(FlagState(def.testOverride.b, "test"), readLocation, dynamic, 0)
    ELSE IF def.override # Undefined
      THEN FlagReturn(FlagState(def.override.b, "override"), readLocation, dynamic, 0)
    ELSE LET r == FlagStore_remote(gate, provider)
         IN [FlagReturn(r.state, readLocation, dynamic, r.gateCalls) EXCEPT !.kind = r.kind]

(***************************************************************************)
(* part_001: tryCoerce and ParamStore                                      *)
(***************************************************************************)
\* The zod schemas the repository declares (part_002:20-32, README):
\* z.string(), z.number(), z.boolean(), z.enum([...]), z.number().min().max().
\* None of them transforms: parsed.data is the accepted input.
ZString == [t |-> "string", options |-> {}, min |-> 0, max |-> 0]
ZNumber == [t |-> "number", options |-> {}, min |-> 0, max |-> 0]
ZBoolean == [t |-> "boolean", options |-> {}, min |-> 0, max |-> 0]
ZEnum(options) == [t |-> "enum", options |-> options, min |-> 0, max |-> 0]
ZRange(lo, hi) == [t |-> "range", options |-> {}, min |-> lo, max |-> hi]

\* schema.safeParse(value)
safeParse(schema, value) ==
  LET success ==
        CASE schema.t = "string"  -> value.k = "string"
          [] schema.t = "number"  -> value.k = "number"
          [] schema.t = "boolean" -> value.k = "boolean"
          [] schema.t = "enum"    -> value.k = "string" /\ value.s \in schema.options
          [] OTHER                -> /\ value.k = "number"
                                     /\ schema.min <= value.n /\ value.n <= schema.max
  IN [success |-> success,
      data |-> IF success THEN value ELSE Undefined,
      error |-> IF success THEN "none" ELSE "ZodError"]

\* defineParam({schema, fallback, testOverride, override})
defineParam(schema, fallback, testOverride, override) ==
  [schema |-> schema, fallback |-> fallback, testOverride |-> testOverride,
   override |-> override]

\* The registry handed to createParamStore: the test suite's testStores, and
\* the README's pricing store with parameters that declare both overrides.
testStores ==
  (<<"test_store">> :>
     ( (<<"text">> :> defineParam(ZString, Str("default text"), Undefined, Undefined)) @@
       (<<"count">> :> defineParam(ZNumber, Num(0), Undefined, Undefined)) @@
       (<<"enabled">> :> defineParam(ZBoolean, Bool(FALSE), Undefined, Undefined)) @@
       (<<"color">> :> defineParam(ZEnum({"red", "blue", "green"}), Str("red"),
                                   Str("blue"), Undefined)) @@
       (<<"size">> :> defineParam(ZNumber, Num(10), Undefined, Num(20))) )) @@
  (<<"pricing">> :>
     ( (<<"discount">> :> defineParam(ZRange(0, 100), Num(0), Num(150), Num(200))) @@
       (<<"currency">> :> defineParam(ZEnum({"USD", "CNY", "EUR"}), Str("USD"),
                                      Str("CNY"), Str("EUR"))) ))

\* What the JavaScript built-ins make of the raw query values the model
\* feeds in: raw.trim(), the {...} / [...] shape test, JSON.parse, Number.
NaN == Value("NaN", FALSE, 0, "", <<>>)
Trim(raw) ==
  CASE raw = " 42 " -> "42"
    [] OTHER       -> raw
JsonShaped(trimmed) ==
  trimmed \in {"{\"text\":\"URL text\",\"count\":7}", "{\"count\":\"seven\"}", "{bad}",
               "{}", "[1,2]", "[bad]", "{\"count\":{\"a\":1}}", "{\"count\":{\"b\":2}}"}
JsonFails == [ok |-> FALSE, value |-> Undefined]
JsonOk(value) == [ok |-> TRUE, value |-> value]
JsonParse(text) ==
  CASE text = "{\"text\":\"URL text\",\"count\":7}" ->
         JsonOk(Obj((<<"text">> :> Str("URL text")) @@ (<<"count">> :> Num(7))))
    [] text = "{\"count\":\"seven\"}" -> JsonOk(Obj(<<"count">> :> Str("seven")))
    [] text = "{\"count\":{\"a\":1}}" -> JsonOk(Obj(<<"count">> :> Obj(<<"a">> :> Num(1))))
    [] text = "{\"count\":{\"b\":2}}" -> JsonOk(Obj(<<"count">> :> Obj(<<"b">> :> Num(2))))
    [] text = "{}"    -> JsonOk(EmptyObj)
    [] text = "[1,2]" -> JsonOk(Arr((<<"0">> :> Num(1)) @@ (<<"1">> :> Num(2))))
    [] text = "42"    -> JsonOk(Num(42))
    [] text = " 42 "  -> JsonOk(Num(42))
    [] text = "150"   -> JsonOk(Num(150))
    [] text = "true"  -> JsonOk(Bool(TRUE))
    [] text = "false" -> JsonOk(Bool(FALSE))
    [] text = "null"  -> JsonOk(Null)
    [] OTHER          -> JsonFails
NumberOf(raw) ==
  CASE raw = "42"   -> Num(42)
    [] raw = " 42 " -> Num(42)
    [] raw = "150"  -> Num(150)
    [] raw = ""     -> Num(0)
    [] OTHER        -> NaN

\* tryCoerce giving up on a value shaped like JSON that does not parse:
\* undefined instead of the raw string.
tryCoerce_DropMalformed(raw, hasDef, def) ==
  LET trimmed == Trim(raw)
      json == IF JsonShaped(trimmed) THEN JsonParse(trimmed) ELSE JsonFails
      num == NumberOf(raw)
  IN
  IF json.ok THEN json.value
  ELSE IF JsonShaped(trimmed) THEN Undefined
  ELSE IF ~hasDef THEN Str(raw)
  ELSE IF num # NaN /\ safeParse(def.schema, num).success THEN num
  ELSE IF raw = "true" /\ safeParse(def.schema, Bool(TRUE)).success THEN Bool(TRUE)
  ELSE IF raw = "false" /\ safeParse(def.schema, Bool(FALSE)).success THEN Bool(FALSE)
  ELSE IF raw = "null" /\ safeParse(def.schema, Null).success THEN Null
  ELSE Str(raw)

\* tryCoerce taking the parsed number without asking the schema.
tryCoerce_NumberUnchecked(raw, hasDef, def) ==
  LET trimmed == Trim(raw)
      json == IF JsonShaped(trimmed) THEN JsonParse(trimmed) ELSE JsonFails
      num == NumberOf(raw)
  IN
  IF json.ok THEN json.value
  ELSE IF ~hasDef THEN Str(raw)
  ELSE IF num # NaN THEN num
  ELSE IF raw = "true" /\ safeParse(def.schema, Bool(TRUE)).success THEN Bool(TRUE)
  ELSE IF raw = "false" /\ safeParse(def.schema, Bool(FALSE)).success THEN Bool(FALSE)
  ELSE IF raw = "null" /\ safeParse(def.schema, Null).success THEN Null
  ELSE Str(raw)

\* tryCoerce(raw, def); hasDef is FALSE for `def` undefined.
tryCoerce(raw, hasDef, def) ==
  LET trimmed == Trim(raw)
      json == IF JsonShaped(trimmed) THEN JsonParse(trimmed) ELSE JsonFails
      num == NumberOf(raw)
  IN
  IF json.ok THEN json.value
  ELSE IF ~hasDef THEN Str(raw)
  ELSE IF num # NaN /\ safeParse(def.schema, num).success THEN num
  ELSE IF raw = "true" /\ safeParse(def.schema, Bool(TRUE)).success THEN Bool(TRUE)
  ELSE IF raw = "false" /\ safeParse(def.schema, Bool(FALSE)).success THEN Bool(FALSE)
  ELSE IF raw = "null" /\ safeParse(def.schema, Null).success THEN Null
  ELSE Str(raw)

FP_PREFIX == "fp"

\* lodash isObject / isIndex, as set() and merge() use them.
IsObject(x) == x.k \in {"object", "array"}
IsIndex(segment) == segment \in {"0", "1", "2"}

\* lodash set(object, path, value), path being the segments of a dotted
\* string: walks the path, replacing what is no object by {} (by [] in front
\* of an index), and assigns at its end.
RECURSIVE LodashSet(_, _, _)
LodashSet(object, path, value) ==
  LET key == <<Head(path)>>
      objValue == Prop(object, key)
      newValue ==
        IF Len(path) = 1 THEN value
        ELSE LodashSet(IF IsObject(objValue) THEN objValue
                       ELSE IF IsIndex(path[2]) THEN Arr(<<>>) ELSE EmptyObj,
                       Tail(path), value)
  IN [object EXCEPT !.f = (key :> newValue) @@ object.f]

\* A shallow merge in the place of lodash merge: Object.assign(object, source).
LodashMerge_Shallow(object, source) == [object EXCEPT !.f = source.f @@ object.f]

\* lodash merge(object, source): recursive for objects and arrays, a plain
\* assignment for everything else.
RECURSIVE LodashMerge(_, _)
LodashMerge(object, source) ==
  LET mergeValue(key) ==
        LET srcValue == source.f[key]
            objValue == Prop(object, key)
        IN IF srcValue.k = "array"
             THEN LodashMerge(IF objValue.k = "array" THEN objValue ELSE Arr(<<>>), srcValue)
           ELSE IF srcValue.k = "object"
             THEN LodashMerge(IF IsObject(objValue) THEN objValue ELSE EmptyObj, srcValue)
           ELSE srcValue
  IN [object EXCEPT !.f = [key \in DOMAIN object.f \cup DOMAIN source.f |->
                             IF key \in DOMAIN source.f THEN mergeValue(key)
                             ELSE object.f[key]]]

\* this.definitions[storeKey]?.params[paramKey], as [has, def].  The
\* registry holds its declared keys and no others: keys a plain object
\* inherits from Object.prototype are not modelled.
NoParamDef == [has |-> FALSE, def |-> defineParam(ZString, Undefined, Undefined, Undefined)]
ParamDefOf(storeKey, paramKey) ==
  IF storeKey \in DOMAIN testStores /\ paramKey \in DOMAIN testStores[storeKey]
    THEN [has |-> TRUE, def |-> testStores[storeKey][paramKey]]
    ELSE NoParamDef

\* The for-loop of ParamStore.parseUrlOverrides from entry i on.
RECURSIVE ParamOverridesFrom(_, _, _)
ParamOverridesFrom(entries, i, urlResult) ==
  IF i > Len(entries) THEN urlResult
  ELSE
    LET key == entries[i].name
        value == entries[i].value
        rest == Tail(key)
        next ==
          IF ~StartsWith(key, FP_PREFIX) THEN urlResult
          ELSE IF Len(rest) >= 2
            THEN LET paramDef == ParamDefOf(<<rest[1]>>, Tail(rest))
                 IN LodashSet(urlResult, rest, tryCoerce(value, paramDef.has, paramDef.def))
          ELSE LET obj == JsonParse(value)
                   old == IF rest \in DOMAIN urlResult.f THEN urlResult.f[rest] ELSE EmptyObj
               IN IF obj.ok /\ obj.value.k = "object"
                    THEN [urlResult EXCEPT !.f = (rest :> LodashMerge(old, obj.value)) @@ @]
                    ELSE urlResult
    IN ParamOverridesFrom(entries, i + 1, next)

\* ParamStore.parseUrlOverrides(search)
ParamStore_parseUrlOverrides(search, location) ==
  LET searchString == IF search.given THEN search.entries
                      ELSE IF hasWindow THEN location ELSE <<>>
  IN ParamOverridesFrom(searchString, 1, EmptyObj)

\* The remote snapshot getParameterStore returns: the parameter keys its
\* __configuration holds an entry for, and what its get(key, fallback)
\* hands back (the fallback for a key it knows no value of).
Snapshot(config, values) == [config |-> config, values |-> values]
SnapshotGet(store, paramKey, fallback) ==
  IF paramKey \in DOMAIN store.values THEN store.values[paramKey] ELSE fallback

\* options.statsigStore: absent, null, or a snapshot.
NoSnapshot == Snapshot({}, <<>>)
StoreUndefined == [given |-> "undefined", store |-> NoSnapshot]
StoreNull == [given |-> "null", store |-> NoSnapshot]
StoreGiven(store) == [given |-> "store", store |-> store]

\* What getParameterStore does when it is called: returns a snapshot, or throws.
StoreNotCalled == [o |-> "notCalled", store |-> NoSnapshot]
StoreThrows == [o |-> "throws", store |-> NoSnapshot]
StoreReturns(store) == [o |-> "returns", store |-> store]

\* ParamState: {value, source, error?, fallback?}
Absent == Value("absent", FALSE, 0, "", <<>>)
ParamState(value, source, error, fallback) ==
  [value |-> value, source |-> source, error |-> error, fallback |-> fallback]
NoState == ParamState(Absent, "none", "absent", Absent)

\* An Error thrown to the caller: its message, and the key the message names.
NoError == [message |-> "none", key |-> <<>>]
Error(message, key) == [message |-> message, key |-> key]
ProviderError == Error("getParameterStore failed", <<>>)

\* How a resolve call ends, with what it did on the way: read
\* window.location.search, ran a caller-supplied isTestEnv predicate, called
\* getParameterStore, called the snapshot's get, wrote to console.error.
ParamResult(kind, error, state, readLocation, ranDetector, storeCalls, getCalls, consoleError) ==
  [kind |-> kind, error |-> error, state |-> state, readLocation |-> readLocation,
   ranDetector |-> ranDetector, storeCalls |-> storeCalls, getCalls |-> getCalls,
   consoleError |-> consoleError]

\* Step 4 with the missing singleton swallowed the way FlagStore.resolve
\* swallows it: the declared fallback instead of the throw.
ParamStore_remote_SwallowNotInitialized(paramKey, def, statsigStore, provider) ==
  LET fetch == statsigStore.given # "store"
      clientStore == IF fetch THEN provider.store ELSE statsigStore.store
      hasConfig == paramKey \in clientStore.config
  IN
  IF fetch /\ getStatsigClientSync.kind = "throw"
    THEN [kind |-> "return", error |-> NoError, value |-> def.fallback,
          source |-> "fallback", storeCalls |-> 0, getCalls |-> 0]
  ELSE IF fetch /\ provider.o # "returns"
    THEN [kind |-> "throw", error |-> ProviderError, value |-> Absent,
          source |-> "none", storeCalls |-> 1, getCalls |-> 0]
  ELSE [kind |-> "return", error |-> NoError,
        value |-> IF hasConfig THEN SnapshotGet(clientStore, paramKey, def.fallback)
                  ELSE def.fallback,
        source |-> IF hasConfig THEN "remote" ELSE "fallback",
        storeCalls |-> IF fetch THEN 1 ELSE 0,
        getCalls |-> IF hasConfig THEN 1 ELSE 0]

\* Step 4 without the __configuration probe guarding the get: the snapshot
\* is asked for the value whether it has an entry or not.
ParamStore_remote_GetWithoutProbe(paramKey, def, statsigStore, provider) ==
  LET fetch == statsigStore.given # "store"
      clientStore == IF fetch THEN provider.store ELSE statsigStore.store
      hasConfig == paramKey \in clientStore.config
  IN
  IF fetch /\ getStatsigClientSync.kind = "throw"
    THEN [kind |-> "throw", error |-> Error(NotInitialized, <<>>), value |-> Absent,
          source |-> "none", storeCalls |-> 0, getCalls |-> 0]
  ELSE IF fetch /\ provider.o # "returns"
    THEN [kind |-> "throw", error |-> ProviderError, value |-> Absent,
          source |-> "none", storeCalls |-> 1, getCalls |-> 0]
  ELSE [kind |-> "return", error |-> NoError,
        value |-> SnapshotGet(clientStore, paramKey, def.fallback),
        source |-> IF hasConfig THEN "remote" ELSE "fallback",
        storeCalls |-> IF fetch THEN 1 ELSE 0,
        getCalls |-> 1]

\* Step 4 of resolve: statsigStore ?? getStatsigClientSync().getParameterStore(...),
\* the __configuration probe, and clientStore.get(paramKey, def.fallback).
ParamStore_remote(paramKey, def, statsigStore, provider) ==
  LET fetch == statsigStore.given # "store"
      clientStore == IF fetch THEN provider.store ELSE statsigStore.store
      hasConfig == paramKey \in clientStore.config
  IN
  IF fetch /\ getStatsigClientSync.kind = "throw"
    THEN [kind |-> "throw", error |-> Error(NotInitialized, <<>>), value |-> Absent,
          source |-> "none", storeCalls |-> 0, getCalls |-> 0]
  ELSE IF fetch /\ provider.o # "returns"
    THEN [kind |-> "throw", error |-> ProviderError, value |-> Absent,
          source |-> "none", storeCalls |-> 1, getCalls |-> 0]
  ELSE [kind |-> "return", error |-> NoError,
        value |-> IF hasConfig THEN SnapshotGet(clientStore, paramKey, def.fallback)
                  ELSE def.fallback,
        source |-> IF hasConfig THEN "remote" ELSE "fallback",
        storeCalls |-> IF fetch THEN 1 ELSE 0,
        getCalls |-> IF hasConfig THEN 1 ELSE 0]

\* The validation with a failing remote value treated like a local one:
\* kept, tagged 'remote', annotated with error and fallback.
ParamStore_validate_KeepRemote(def, value, source) ==
  LET parsed == safeParse(def.schema, value) IN
  IF ~parsed.success
    THEN [state |-> ParamState(value, source, parsed.error, def.fallback),
          consoleError |-> TRUE]
    ELSE [state |-> ParamState(parsed.data, source, "absent", Absent),
          consoleError |-> FALSE]

\* The validation with a failing local value replaced by the fallback.
ParamStore_validate_SubstituteFallback(def, value, source) ==
  LET parsed == safeParse(def.schema, value) IN
  IF ~parsed.success
    THEN [state |-> IF source = "remote"
                      THEN ParamState(def.fallback, "fallback", parsed.error, Absent)
                      ELSE ParamState(def.fallback, source, parsed.error, def.fallback),
          consoleError |-> TRUE]
    ELSE [state |-> ParamState(parsed.data, source, "absent", Absent),
          consoleError |-> FALSE]

\* The validation handing out the fallback member with every state.
ParamStore_validate_FallbackAlways(def, value, source) ==
  LET parsed == safeParse(def.schema, value) IN
  IF ~parsed.success
    THEN [state |-> IF source = "remote"
                      THEN ParamState(def.fallback, "fallback", parsed.error, Absent)
                      ELSE ParamState(value, source, parsed.error, def.fallback),
          consoleError |-> TRUE]
    ELSE [state |-> ParamState(parsed.data, source, "absent", def.fallback),
          consoleError |-> FALSE]

\* The validation without the report of a mismatch.
ParamStore_validate_Silent(def, value, source) ==
  LET parsed == safeParse(def.schema, value) IN
  IF ~parsed.success
    THEN [state |-> IF source = "remote"
                      THEN ParamState(def.fallback, "fallback", parsed.error, Absent)
                      ELSE ParamState(value, source, parsed.error, def.fallback),
          consoleError |-> FALSE]
    ELSE [state |-> ParamState(parsed.data, source, "absent", Absent),
          consoleError |-> FALSE]

\* The schema validation at the end of resolve.
ParamStore_validate(def, value, source) ==
  LET parsed == safeParse(def.schema, value) IN
  IF ~parsed.success
    THEN [state |-> IF source = "remote"
                      THEN ParamState(def.fallback, "fallback", parsed.error, Absent)
                      ELSE ParamState(value, source, parsed.error, def.fallback),
          consoleError |-> TRUE]
    ELSE [state |-> ParamState(parsed.data, source, "absent", Absent),
          consoleError |-> FALSE]

\* The steps of resolve with the snapshot fetched ahead of step 1, as a
\* hoisted `statsigStore ?? getStatsigClientSync().getParameterStore(...)`.
ParamStore_steps_EagerFetch(def, storeKey, paramKey, statsigStore, search, location, dyn, provider) ==
  LET readLocation == hasWindow /\ ~search.given
      dynamic == testEnvDetector = "dynamic"
      fetch == statsigStore.given # "store"
      fetched == IF fetch THEN 1 ELSE 0
      urlOverrides == ParamStore_parseUrlOverrides(search, location)
      urlVal == Prop(Prop(urlOverrides, storeKey), paramKey)
  IN
  IF fetch /\ getStatsigClientSync.kind = "throw"
    THEN ParamResult("throw", Error(NotInitialized, <<>>), NoState, FALSE, FALSE, 0, 0, FALSE)
  ELSE IF fetch /\ provider.o # "returns"
    THEN ParamResult("throw", ProviderError, NoState, FALSE, FALSE, 1, 0, FALSE)
  ELSE IF urlVal # Undefined
    THEN LET v == ParamStore_validate(def, urlVal, "url")
         IN ParamResult("return", NoError, v.state, readLocation, FALSE, fetched, 0,
                        v.consoleError)
  ELSE IF isTestEnv(dyn) /\ def.testOverride # Undefined
    THEN LET v == ParamStore_validate(def, def.testOverride, "test")
         IN ParamResult("return", NoError, v.state, readLocation, dynamic, fetched, 0,
                        v.consoleError)
  ELSE IF def.override # Undefined
    THEN LET v == ParamStore_validate(def, def.override, "override")
         IN ParamResult("return", NoError, v.state, readLocation, dynamic, fetched, 0,
                        v.consoleError)
  ELSE
    LET r == ParamStore_remote(paramKey, def, statsigStore, provider)
        v == ParamStore_validate(def, r.value, r.source)
    IN ParamResult("return", NoError, v.state, readLocation, dynamic,
                   r.storeCalls, r.getCalls, v.consoleError)

\* The steps of resolve with the static override tried before the test
\* override.
ParamStore_steps_OverrideFirst(def, storeKey, paramKey, statsigStore, search, location, dyn, provider) ==
  LET readLocation == hasWindow /\ ~search.given
      dynamic == testEnvDetector = "dynamic"
  IN
    LET urlOverrides == ParamStore_parseUrlOverrides(search, location)
        urlVal == Prop(Prop(urlOverrides, storeKey), paramKey)
    IN
    IF urlVal # Undefined
      THEN LET v == ParamStore_validate(def, urlVal, "url")
           IN ParamResult("return", NoError, v.state, readLocation, FALSE, 0, 0,
                          v.consoleError)
    ELSE IF def.override # Undefined
      THEN LET v == ParamStore_validate(def, def.override, "override")
           IN ParamResult("return", NoError, v.state, readLocation, FALSE, 0, 0,
                          v.consoleError)
    ELSE IF isTestEnv(dyn) /\ def.testOverride # Undefined
      THEN LET v == ParamStore_validate(def, def.testOverride, "test")
           IN ParamResult("return", NoError, v.state, readLocation, dynamic, 0, 0,
                          v.consoleError)
    ELSE
      LET r == ParamStore_remote(paramKey, def, statsigStore, provider) IN
      IF r.kind = "throw"
        THEN ParamResult("throw", r.error, NoState, readLocation, dynamic,
                         r.storeCalls, r.getCalls, FALSE)
        ELSE LET v == ParamStore_validate(def, r.value, r.source)
             IN ParamResult("return", NoError, v.state, readLocation, dynamic,
                            r.storeCalls, r.getCalls, v.consoleError)

\* The steps of ParamStore.resolve for a declared parameter: URL, test
\* override, static override, remote, and the schema validation.
ParamStore_steps(def, storeKey, paramKey, statsigStore, search, location, dyn, provider) ==
  LET readLocation == hasWindow /\ ~search.given
      dynamic == testEnvDetector = "dynamic"
  IN
    LET urlOverrides == ParamStore_parseUrlOverrides(search, location)
        urlVal == Prop(Prop(urlOverrides, storeKey), paramKey)
    IN
    IF urlVal # Undefined
      THEN LET v == ParamStore_validate(def, urlVal, "url")
           IN ParamResult("return", NoError, v.state, readLocation, FALSE, 0, 0,
                          v.consoleError)
    ELSE IF isTestEnv(dyn) /\ def.testOverride # Undefined
      THEN LET v == ParamStore_validate(def, def.testOverride, "test")
           IN ParamResult("return", NoError, v.state, readLocation, dynamic, 0, 0,
                          v.consoleError)
    ELSE IF def.override # Undefined
      THEN LET v == ParamStore_validate(def, def.override, "override")
           IN ParamResult("return", NoError, v.state, readLocation, dynamic, 0, 0,
                          v.consoleError)
    ELSE
      LET r == ParamStore_remote(paramKey, def, statsigStore, provider) IN
      IF r.kind = "throw"
        THEN ParamResult("throw", r.error, NoState, readLocation, dynamic,
                         r.storeCalls, r.getCalls, FALSE)
        ELSE LET v == ParamStore_validate(def, r.value, r.source)
             IN ParamResult("return", NoError, v.state, readLocation, dynamic,
                            r.storeCalls, r.getCalls, v.consoleError)

\* resolve with the URL step ahead of the registry checks: a query-string
\* value is handed back for a key the registry does not hold.
ParamStore_resolve_UrlFirst(storeKey, paramKey, statsigStore, search, location, dyn, provider) ==
  LET urlVal == Prop(Prop(ParamStore_parseUrlOverrides(search, location), storeKey), paramKey)
  IN
  IF ~ParamDefOf(storeKey, paramKey).has /\ urlVal # Undefined
    THEN ParamResult("return", NoError, ParamState(urlVal, "url", "absent", Absent),
                     hasWindow /\ ~search.given, FALSE, 0, 0, FALSE)
  ELSE IF storeKey \notin DOMAIN testStores
    THEN ParamResult("throw", Error("[ParamStore] Unknown store: ", storeKey), NoState,
                     FALSE, FALSE, 0, 0, FALSE)
  ELSE IF paramKey \notin DOMAIN testStores[storeKey]
    THEN ParamResult("throw", Error("[ParamStore] Unknown param: ", storeKey \o paramKey),
                     NoState, FALSE, FALSE, 0, 0, FALSE)
  ELSE ParamStore_steps(testStores[storeKey][paramKey], storeKey, paramKey, statsigStore,
                        search, location, dyn, provider)

\* ParamStore.resolve(storeKey, paramKey, {statsigStore, search})
ParamStore_resolve(storeKey, paramKey, statsigStore, search, location, dyn, provider) ==
  IF storeKey \notin DOMAIN testStores
    THEN ParamResult("throw", Error("[ParamStore] Unknown store: ", storeKey), NoState,
                     FALSE, FALSE, 0, 0, FALSE)
  ELSE IF paramKey \notin DOMAIN testStores[storeKey]
    THEN ParamResult("throw", Error("[ParamStore] Unknown param: ", storeKey \o paramKey),
                     NoState, FALSE, FALSE, 0, 0, FALSE)
  ELSE ParamStore_steps(testStores[storeKey][paramKey], storeKey, paramKey, statsigStore,
                        search, location, dyn, provider)

\* The closure state of ParamStore.getStore(storeKey, options): the store
\* key, the remaining options, and cachedStore (null when the fetch threw).
Handle(storeKey, search, cachedStore) ==
  [made |-> TRUE, storeKey |-> storeKey, search |-> search, cachedStore |-> cachedStore]

ParamStore_getStore(storeKey, statsigStore, search, provider) ==
  LET fetch == statsigStore.given = "undefined"
      threw == getStatsigClientSync.kind = "throw" \/ provider.o # "returns"
      cachedStore == IF ~fetch THEN statsigStore
                     ELSE IF threw THEN StoreNull
                     ELSE StoreGiven(provider.store)
  IN [kind |-> "return", handle |-> Handle(storeKey, search, cachedStore),
      storeCalls |-> IF fetch /\ getStatsigClientSync.kind = "return" THEN 1 ELSE 0]

(***************************************************************************)
(* The calls the application makes                                         *)
(***************************************************************************)
NoCall == [op |-> "none"]
NoResult == [kind |-> "none"]
NoHandle == [made |-> FALSE]

Init ==
  /\ client = NullClient
  /\ testEnvDetector = "null"
  /\ currentLogger = "defaultLogger"
  /\ hasWindow \in BOOLEAN
  /\ handle = NoHandle
  /\ pc = "idle"
  /\ call = NoCall
  /\ result = NoResult

\* The synchronous call has returned; the caller goes on.
Return ==
  /\ pc = "returned"
  /\ pc' = "idle"
  /\ call' = NoCall
  /\ result' = NoResult
  /\ UNCHANGED <<client, testEnvDetector, currentLogger, hasWindow, handle>>

\* setLogger(logger)
setLogger ==
  /\ pc = "idle"
  /\ \E logger \in Loggers \ {"defaultLogger"} :
       /\ currentLogger' = logger
       /\ call' = [op |-> "setLogger", logger |-> logger]
  /\ result' = [kind |-> "return"]
  /\ pc' = "returned"
  /\ UNCHANGED <<client, testEnvDetector, hasWindow, handle>>

\* The options of initStatsigClient the library reads itself.
IsTestEnvOptions == {"undefined", "true", "false", "function"}
LoggerOptions == {"undefined"} \cup (Loggers \ {"defaultLogger"})
BootstrapOptions == {"undefined", "data"}   \* absent, or {data: '...'}
ClientKeys == {"client-xxx", "client-yyy"}
\* The keys are interchangeable: the call that constructs the client uses
\* the first, the calls after it any.
FirstClientKey == "client-xxx"

\* initStatsigClient without the `if (client) return client` of its first
\* line: every call goes through the whole construction.
initStatsigClient_NoEarlyReturn ==
  /\ pc = "idle"
  /\ \E clientKey \in ClientKeys, isTestEnvOpt \in IsTestEnvOptions,
        logger \in LoggerOptions, bootstrap \in BootstrapOptions :
       /\ client = NullClient => clientKey = FirstClientKey
       /\ call' = [op |-> "initStatsigClient", clientKey |-> clientKey,
                    isTestEnv |-> isTestEnvOpt, logger |-> logger, bootstrap |-> bootstrap]
       /\ LET log == IF logger # "undefined" THEN logger ELSE getLogger
              made == StatsigClient(clientKey)
          IN /\ currentLogger' = log
             /\ testEnvDetector' =
                  CASE isTestEnvOpt = "function" -> "dynamic"
                    [] isTestEnvOpt = "true"     -> "constTrue"
                    [] isTestEnvOpt = "false"    -> "constFalse"
                    [] OTHER                     -> testEnvDetector
             /\ client' = made
             /\ result' = [kind |-> "return", client |-> made, constructed |-> TRUE,
                            setData |-> (bootstrap = "data"), initializeSync |-> TRUE,
                            logged |-> IF bootstrap # "undefined"
                                         THEN "Initializing with bootstrap data"
                                         ELSE "Initializing in default mode",
                            sink |-> log]
  /\ pc' = "returned"
  /\ UNCHANGED <<hasWindow, handle>>

\* initStatsigClient(clientKey, user, {isTestEnv, logger, bootstrap, ...})
initStatsigClient ==
  /\ pc = "idle"
  /\ \E clientKey \in ClientKeys, isTestEnvOpt \in IsTestEnvOptions,
        logger \in LoggerOptions, bootstrap \in BootstrapOptions :
       /\ client = NullClient => clientKey = FirstClientKey
       /\ call' = [op |-> "initStatsigClient", clientKey |-> clientKey,
                    isTestEnv |-> isTestEnvOpt, logger |-> logger, bootstrap |-> bootstrap]
       /\ IF client # NullClient
            THEN /\ result' = [kind |-> "return", client |-> client, constructed |-> FALSE,
                                setData |-> FALSE, initializeSync |-> FALSE,
                                logged |-> "nothing", sink |-> "none"]
                 /\ UNCHANGED <<client, testEnvDetector, currentLogger>>
            ELSE LET log == IF logger # "undefined" THEN logger ELSE getLogger
                     made == StatsigClient(clientKey)
                 IN /\ currentLogger' = log
                    /\ testEnvDetector' =
                         CASE isTestEnvOpt = "function" -> "dynamic"
                           [] isTestEnvOpt = "true"     -> "constTrue"
                           [] isTestEnvOpt = "false"    -> "constFalse"
                           [] OTHER                     -> testEnvDetector
                    /\ client' = made
                    /\ result' = [kind |-> "return", client |-> made, constructed |-> TRUE,
                                   setData |-> (bootstrap = "data"), initializeSync |-> TRUE,
                                   logged |-> IF bootstrap # "undefined"
                                                THEN "Initializing with bootstrap data"
                                                ELSE "Initializing in default mode",
                                   sink |-> log]
  /\ pc' = "returned"
  /\ UNCHANGED <<hasWindow, handle>>

\* Inputs of the flag lookups.
FlagKeys == DOMAIN mockFlags \cup {<<"unknown_key">>}
FlagQueryEntries ==
  { Entry(<<"ff", "feature_a">>, "1"),
    Entry(<<"ff", "feature_d">>, "0"),
    Entry(<<"ff", "feature_d">>, " TRUE "),
    Entry(<<"ff", "unknown_key">>, "1"),
    Entry(<<"theme">>, "1") }
FlagSearches == {NoSearch} \cup {Search(es) : es \in SeqsUpTo(FlagQueryEntries, MaxSearchLen)}
FlagLocations == {<<>>, <<Entry(<<"ff", "feature_d">>, "1")>>}
IdTypes == {Str("userID"), Str(""), Null, Undefined}
Gates == {Gate(TRUE, Str("userID")), Gate(FALSE, Str("userID")), Gate(TRUE, Str("")),
          Gate(FALSE, Null), Gate(TRUE, Undefined)}
GateOptions == {NoGate} \cup {GivenGate(g) : g \in Gates}
FeatureGateOutcomes == {NotCalled, Throws} \cup {Returns(g) : g \in Gates}

\* flagStore.resolve(key, options), getFlagState(key) and getFlag(key): the
\* last two take EvaluationOptions only, and getFlag hands back state.flag.
FlagLookupWith(searches) ==
  /\ pc = "idle"
  /\ \E op \in {"resolve", "getFlagState", "getFlag"}, key \in FlagKeys,
        search \in searches, gate \in GateOptions, location \in FlagLocations,
        dyn \in BOOLEAN, provider \in FeatureGateOutcomes :
       /\ op # "resolve" => search = NoSearch /\ gate = NoGate
       /\ search.given \/ ~hasWindow => location = <<>>
       /\ testEnvDetector # "dynamic" => dyn = FALSE
       /\ gate.given \/ client = NullClient => provider = NotCalled
       /\ LET r == FlagStore_resolve(key, search, gate, location, dyn, provider) IN
          /\ ~r.readLocation => location = <<>>
          /\ ~r.ranDetector => dyn = FALSE
          /\ (provider = NotCalled) <=> (r.gateCalls = 0)
          /\ call' = [op |-> op, key |-> key, search |-> search, gate |-> gate,
                       location |-> location, dyn |-> dyn, provider |-> provider]
          /\ result' = IF op = "getFlag" THEN [r EXCEPT !.state = r.state.flag] ELSE r
  /\ pc' = "returned"
  /\ UNCHANGED <<client, testEnvDetector, currentLogger, hasWindow, handle>>

\* Inputs of the parameter lookups.
ParamPairs ==
  {<<s, p>> : s \in {<<"test_store">>}, p \in DOMAIN testStores[<<"test_store">>]} \cup
  {<<s, p>> : s \in {<<"pricing">>}, p \in DOMAIN testStores[<<"pricing">>]} \cup
  { <<<<"test_store">>, <<"unknown_param">>>>, <<<<"unknown_store">>, <<"text">>>> }
ParamQueryEntries ==
  { Entry(<<"fp", "test_store", "count">>, "42"),
    Entry(<<"fp", "test_store", "count">>, "abc"),
    Entry(<<"fp", "pricing", "discount">>, "150"),
    Entry(<<"fp", "test_store">>, "{\"text\":\"URL text\",\"count\":7}"),
    \* JSON that does not parse, in the dotted and in the whole-store form
    Entry(<<"fp", "test_store", "text">>, "{bad}"),
    Entry(<<"fp", "test_store">>, "{bad}"),
    \* a name with a further dot after the parameter key
    Entry(<<"fp", "test_store", "count", "x">>, "abc") }
ParamSearches == {NoSearch} \cup {Search(es) : es \in SeqsUpTo(ParamQueryEntries, MaxSearchLen)}
ParamLocations == {<<>>, <<Entry(<<"fp", "test_store", "size">>, "42")>>}
Snapshots ==
  { \* a store without __configuration whose get answers all the same
    Snapshot({}, (<<"text">> :> Str("remote text")) @@ (<<"color">> :> Str("green"))),
    \* entries that fit the schemas, and none for size, enabled and currency
    Snapshot({<<"text">>, <<"count">>, <<"color">>, <<"discount">>},
             (<<"text">> :> Str("remote text")) @@ (<<"count">> :> Num(5)) @@
             (<<"color">> :> Str("green")) @@ (<<"discount">> :> Num(30)) @@
             (<<"size">> :> Num(30))),
    \* entries that do not fit the schemas
    Snapshot({<<"text">>, <<"count">>, <<"color">>, <<"discount">>, <<"enabled">>},
             (<<"text">> :> Num(1)) @@ (<<"count">> :> Str("oops")) @@
             (<<"color">> :> Str("purple")) @@ (<<"discount">> :> Num(500)) @@
             (<<"enabled">> :> Null)) }
StoreOptions == {StoreUndefined, StoreNull} \cup {StoreGiven(st) : st \in Snapshots}
ParameterStoreOutcomes == {StoreNotCalled, StoreThrows} \cup {StoreReturns(st) : st \in Snapshots}

\* paramStore.getParamState(storeKey, paramKey, options) and getParam, which
\* hands back state.value.
ParamLookupWith(searches) ==
  /\ pc = "idle"
  /\ \E op \in {"getParamState", "getParam"}, pair \in ParamPairs, search \in searches,
        statsigStore \in StoreOptions, location \in ParamLocations, dyn \in BOOLEAN,
        provider \in ParameterStoreOutcomes :
       /\ search.given \/ ~hasWindow => location = <<>>
       /\ testEnvDetector # "dynamic" => dyn = FALSE
       /\ statsigStore.given = "store" \/ client = NullClient => provider = StoreNotCalled
       /\ LET r == ParamStore_resolve(pair[1], pair[2], statsigStore, search, location, dyn,
                                      provider) IN
          /\ ~r.readLocation => location = <<>>
          /\ ~r.ranDetector => dyn = FALSE
          /\ (provider = StoreNotCalled) <=> (r.storeCalls = 0)
          /\ call' = [op |-> op, storeKey |-> pair[1], paramKey |-> pair[2],
                       statsigStore |-> statsigStore, search |-> search,
                       location |-> location, dyn |-> dyn, provider |-> provider]
          /\ result' = IF op = "getParam" /\ r.kind = "return"
                         THEN [r EXCEPT !.state = r.state.value] ELSE r
  /\ pc' = "returned"
  /\ UNCHANGED <<client, testEnvDetector, currentLogger, hasWindow, handle>>

\* paramStore.getStore(storeKey, options)
HandleStoreKeys == {<<"test_store">>, <<"unknown_store">>}
HandleSearches == {NoSearch, Search(<<Entry(<<"fp", "test_store", "count">>, "42")>>)}
getStore ==
  /\ pc = "idle"
  /\ \E storeKey \in HandleStoreKeys, statsigStore \in StoreOptions,
        search \in HandleSearches, provider \in ParameterStoreOutcomes :
       LET r == ParamStore_getStore(storeKey, statsigStore, search, provider) IN
       /\ (provider = StoreNotCalled) <=> (r.storeCalls = 0)
       /\ call' = [op |-> "getStore", storeKey |-> storeKey, statsigStore |-> statsigStore,
                    search |-> search, provider |-> provider]
       /\ result' = [kind |-> "return", storeCalls |-> r.storeCalls]
       /\ handle' = r.handle
  /\ pc' = "returned"
  /\ UNCHANGED <<client, testEnvDetector, currentLogger, hasWindow>>

\* handle.getState(paramKey) and handle.get(paramKey) on the handle getStore
\* returned: this.resolve(storeKey, paramKey, opts) with the cached store.
HandleParamKeys == {<<"text">>, <<"count">>, <<"color">>, <<"size">>, <<"unknown_param">>}
HandleLookup ==
  /\ pc = "idle"
  /\ handle.made
  /\ \E op \in {"handle.getState", "handle.get"}, paramKey \in HandleParamKeys,
        location \in ParamLocations, dyn \in BOOLEAN, provider \in ParameterStoreOutcomes :
       /\ handle.search.given \/ ~hasWindow => location = <<>>
       /\ testEnvDetector # "dynamic" => dyn = FALSE
       /\ handle.cachedStore.given = "store" \/ client = NullClient
            => provider = StoreNotCalled
       /\ LET r == ParamStore_resolve(handle.storeKey, paramKey, handle.cachedStore,
                                      handle.search, location, dyn, provider) IN
          /\ ~r.readLocation => location = <<>>
          /\ ~r.ranDetector => dyn = FALSE
          /\ (provider = StoreNotCalled) <=> (r.storeCalls = 0)
          /\ call' = [op |-> op, storeKey |-> handle.storeKey, paramKey |-> paramKey,
                       statsigStore |-> handle.cachedStore, search |-> handle.search,
                       location |-> location, dyn |-> dyn, provider |-> provider]
          /\ result' = IF op = "handle.get" /\ r.kind = "return"
                         THEN [r EXCEPT !.state = r.state.value] ELSE r
  /\ pc' = "returned"
  /\ UNCHANGED <<client, testEnvDetector, currentLogger, hasWindow, handle>>

\* Flag lookups alone, with every query string up to MaxSearchLen entries.
FlagLookup == FlagLookupWith(FlagSearches)
NextFlags == initStatsigClient \/ setLogger \/ FlagLookup \/ Return
SpecFlags == Init /\ [][NextFlags]_vars

\* Parameter lookups alone, with every query string up to MaxSearchLen entries.
ParamLookup == ParamLookupWith(ParamSearches)
NextParams == initStatsigClient \/ setLogger \/ ParamLookup \/ Return
SpecParams == Init /\ [][NextParams]_vars

\* The whole library: flags, parameters and store handles side by side.
CoreFlagSearches ==
  {NoSearch, Search(<<Entry(<<"ff", "feature_a">>, "1")>>),
   Search(<<Entry(<<"ff", "unknown_key">>, "1")>>)}
CoreParamSearches ==
  {NoSearch, Search(<<Entry(<<"fp", "test_store", "count">>, "42")>>),
   Search(<<Entry(<<"fp", "unknown_store", "text">>, "abc")>>)}
FlagLookupCore == FlagLookupWith(CoreFlagSearches)
ParamLookupCore == ParamLookupWith(CoreParamSearches)
Next ==
  \/ initStatsigClient \/ setLogger \/ FlagLookupCore \/ ParamLookupCore
  \/ getStore \/ HandleLookup \/ Return
Spec == Init /\ [][Next]_vars

(***************************************************************************)
(* Flags: what the lookups are to do, stated from the call and its outcome *)
(***************************************************************************)
FlagStateOps == {"resolve", "getFlagState"}
FlagOps == FlagStateOps \cup {"getFlag"}
IsFlagCall == pc = "returned" /\ call.op \in FlagOps
DeclaredFlag == call.key \in DOMAIN mockFlags

\* The query string the call looked at, and the entries ff.<key> in it.
FlagQuery == IF call.search.given THEN call.search.entries ELSE call.location
FlagUrlHits == {i \in 1..Len(FlagQuery) : FlagQuery[i].name = <<"ff">> \o call.key}
FlagUrlLast == CHOOSE i \in FlagUrlHits : \A j \in FlagUrlHits : j <= i
FlagUrlAvailable == FlagUrlHits # {}
FlagUrlValue == TrimLowerCase(FlagQuery[FlagUrlLast].value) \in {"1", "true"}

FlagTestEnvActive ==
  \/ testEnvDetector = "constTrue"
  \/ testEnvDetector = "dynamic" /\ call.dyn
FlagTestAvailable == FlagTestEnvActive /\ mockFlags[call.key].testOverride # Undefined
FlagOverrideAvailable == mockFlags[call.key].override # Undefined

\* The gate the remote step would work with, if there is one.
FlagHasGate == call.gate.given \/ call.provider.o = "returns"
FlagTheGate == IF call.gate.given THEN call.gate.gate ELSE call.provider.gate
FlagRemoteAvailable ==
  FlagHasGate /\ FlagTheGate.idType.k = "string" /\ FlagTheGate.idType.s # ""

\* No higher-priority source applies: resolution gets to the remote step.
FlagAtRemoteStep ==
  DeclaredFlag /\ ~FlagUrlAvailable /\ ~FlagTestAvailable /\ ~FlagOverrideAvailable

FlagExpected ==
  IF FlagUrlAvailable THEN FlagState(FlagUrlValue, "url")
  ELSE IF FlagTestAvailable THEN FlagState(mockFlags[call.key].testOverride.b, "test")
  ELSE IF FlagOverrideAvailable THEN FlagState(mockFlags[call.key].override.b, "override")
  ELSE IF FlagRemoteAvailable THEN FlagState(FlagTheGate.value, "remote")
  ELSE FlagState(FALSE, "fallback")

\* C1: for a declared key, resolve / getFlagState return the state of the
\* highest-priority available source in the order url > test > override >
\* remote > fallback, the flag value being that source's value (false for
\* the fallback).
C1_PriorityAndValue ==
  IsFlagCall /\ call.op \in FlagStateOps /\ DeclaredFlag
    => result.kind = "return" /\ result.state = FlagExpected

\* C3: a gate with an empty or absent idType degrades to the fallback value
\* false, so every flag state with source 'fallback' has flag = false.
C3_FallbackIsFalse ==
  IsFlagCall /\ call.op \in FlagStateOps /\ result.state.source = "fallback"
    => result.state.flag = FALSE

\* C4: a throw while contacting the remote provider (getStatsigClientSync
\* or getFeatureGate throwing) never reaches the caller of a flag lookup;
\* the lookup returns {flag: false, source: 'fallback'}.
FlagProviderThrew ==
  \/ call.provider = Throws
  \/ FlagAtRemoteStep /\ ~call.gate.given /\ client = NullClient
C4_RemoteThrowIsCaught ==
  IsFlagCall
    => /\ result.kind = "return"
       /\ FlagProviderThrew =>
            IF call.op = "getFlag" THEN result.state = FALSE
            ELSE result.state = FlagState(FALSE, "fallback")
C4_Witness ==
  IsFlagCall /\ call.op = "resolve" /\ call.provider = Throws /\ result.kind = "return"

ParamStateOps == {"getParamState", "handle.getState"}
ParamValueOps == {"getParam", "handle.get"}
HandleOps == {"handle.getState", "handle.get"}
ParamOps == ParamStateOps \cup ParamValueOps
IsParamCall == pc = "returned" /\ call.op \in ParamOps
DeclaredStore == call.storeKey \in DOMAIN testStores
DeclaredParam == DeclaredStore /\ call.paramKey \in DOMAIN testStores[call.storeKey]
TheParamDef == testStores[call.storeKey][call.paramKey]

\* The query string the call looked at; the entries that name the parameter,
\* as fp.<store>.<param>=... or as a member of the object in fp.<store>={...}.
ParamQuery == IF call.search.given THEN call.search.entries ELSE call.location
ParamUrlNamed ==
  \E i \in 1..Len(ParamQuery) :
    \/ ParamQuery[i].name = <<"fp">> \o call.storeKey \o call.paramKey
    \/ /\ ParamQuery[i].name = <<"fp">> \o call.storeKey
       /\ JsonParse(ParamQuery[i].value).ok
       /\ JsonParse(ParamQuery[i].value).value.k = "object"
       /\ call.paramKey \in DOMAIN JsonParse(ParamQuery[i].value).value.f
ParamUrlDecoded ==
  Prop(Prop(ParamOverridesFrom(ParamQuery, 1, EmptyObj), call.storeKey), call.paramKey)
\* The URL source is available when the override set parsed from the query
\* string holds a value for the pair.
ParamUrlAvailable == ParamUrlDecoded # Undefined

ParamTestEnvActive ==
  \/ testEnvDetector = "constTrue"
  \/ testEnvDetector = "dynamic" /\ call.dyn
ParamTestAvailable == ParamTestEnvActive /\ TheParamDef.testOverride # Undefined
ParamOverrideAvailable == TheParamDef.override # Undefined

\* No higher-priority source applies: resolution gets to the remote step.
ParamAtRemoteStep ==
  DeclaredParam /\ ~ParamUrlAvailable /\ ~ParamTestAvailable /\ ~ParamOverrideAvailable

\* The snapshot the remote step works with, if it gets one.
ParamSnapshotPassed == call.statsigStore.given = "store"
ParamHasSnapshot == ParamSnapshotPassed \/ call.provider.o = "returns"
ParamTheSnapshot ==
  IF ParamSnapshotPassed THEN call.statsigStore.store ELSE call.provider.store
ParamRemoteAvailable == ParamHasSnapshot /\ call.paramKey \in ParamTheSnapshot.config
ParamRemoteValue ==
  IF call.paramKey \in DOMAIN ParamTheSnapshot.values
    THEN ParamTheSnapshot.values[call.paramKey] ELSE TheParamDef.fallback

ParamCandidate ==
  LET urlVal == ParamUrlDecoded IN
  IF urlVal # Undefined THEN [value |-> urlVal, source |-> "url"]
  ELSE IF ParamTestAvailable THEN [value |-> TheParamDef.testOverride, source |-> "test"]
  ELSE IF ParamOverrideAvailable THEN [value |-> TheParamDef.override, source |-> "override"]
  ELSE IF ParamRemoteAvailable THEN [value |-> ParamRemoteValue, source |-> "remote"]
  ELSE [value |-> TheParamDef.fallback, source |-> "fallback"]
ParamCandidateFits == safeParse(TheParamDef.schema, ParamCandidate.value).success

\* What the call handed back: the state's value and source.
ResultValue == IF call.op \in ParamStateOps THEN result.state.value ELSE result.state
ResultSourceIs(source) == call.op \in ParamStateOps => result.state.source = source

\* C2: for a declared (store, parameter) pair, getParamState / getParam take
\* the candidate of the highest-priority available source in the order url >
\* test > override > remote > fallback and consult no source below it; a
\* remote candidate the schema rejects is the one case where the returned
\* source differs from the candidate's.  With a URL override, a static
\* override and a remote value all present the source is 'url' and the value
\* the decoded URL value.
C2_ParamPriority ==
  IsParamCall /\ DeclaredParam =>
    LET c == ParamCandidate
        fits == safeParse(TheParamDef.schema, c.value).success
    IN
    c.source \in {"url", "test", "override"} \/ ParamHasSnapshot
    => /\ result.kind = "return"
       /\ IF c.source = "remote" /\ ~fits
            THEN ResultSourceIs("fallback")
            ELSE ResultSourceIs(c.source) /\ ResultValue = c.value
       /\ c.source = "url" => ~result.ranDetector
       /\ c.source \in {"url", "test", "override"}
            => result.storeCalls = 0 /\ result.getCalls = 0
       /\ c.source = "fallback" => result.getCalls = 0
C2_Witness ==
  /\ IsParamCall /\ call.op = "getParamState" /\ DeclaredParam
  /\ ParamUrlNamed /\ ParamOverrideAvailable /\ ParamSnapshotPassed
  /\ call.paramKey \in call.statsigStore.store.config
  /\ result.kind = "return" /\ result.state.source = "url"
  /\ result.state.value = ParamUrlDecoded

FlagNeedsClient ==
  IsFlagCall /\ FlagAtRemoteStep /\ ~call.gate.given /\ client = NullClient
ParamNeedsClient ==
  IsParamCall /\ ParamAtRemoteStep /\ ~ParamSnapshotPassed /\ client = NullClient

\* C7 as stated: before initStatsigClient, a lookup that needs the remote
\* provider raises, for flags and for parameters alike.
C7_RaisesBeforeInit ==
  FlagNeedsClient \/ ParamNeedsClient => result.kind = "throw"
\* C7 as the code has it: before initStatsigClient, a parameter lookup that
\* needs the remote provider (getParam, getParamState, get / getState of a
\* handle) throws the not-initialized error and hands back no state, while a
\* flag lookup that needs it returns {flag: false, source: 'fallback'}.
C7_ParamsRaiseFlagsFallBack ==
  /\ ParamNeedsClient
       => /\ result.kind = "throw"
          /\ result.error = Error(NotInitialized, <<>>)
          /\ result.state = NoState
          /\ result.storeCalls = 0 /\ result.getCalls = 0
  /\ FlagNeedsClient
       => /\ result.kind = "return"
          /\ IF call.op = "getFlag" THEN result.state = FALSE
             ELSE result.state = FlagState(FALSE, "fallback")
C7_Witness ==
  /\ ParamNeedsClient /\ call.op \in HandleOps /\ handle.made
  /\ result.kind = "throw" /\ result.error.message = NotInitialized

\* C8: at the remote step, a snapshot without a configuration entry for the
\* parameter gives source 'fallback' and the declared fallback as the value,
\* and the snapshot's get is not called.
C8_NoEntryIsFallback ==
  IsParamCall /\ ParamAtRemoteStep /\ ParamHasSnapshot /\ ~ParamRemoteAvailable
    => /\ result.kind = "return"
       /\ ResultSourceIs("fallback")
       /\ ResultValue = TheParamDef.fallback
       /\ result.getCalls = 0
C8_Witness ==
  /\ IsParamCall /\ call.op = "getParamState"
  /\ ParamAtRemoteStep /\ ParamHasSnapshot /\ ~ParamRemoteAvailable
  /\ call.paramKey \in DOMAIN ParamTheSnapshot.values
  /\ ParamTheSnapshot.values[call.paramKey] # TheParamDef.fallback
  /\ result.kind = "return" /\ result.state.source = "fallback"

\* C9: a remote candidate that fails the schema is rejected: the state is
\* {value: declared fallback, source: 'fallback', error}, without the
\* rejected value and without the source 'remote'.
ParamRemoteRejected ==
  /\ IsParamCall /\ ParamAtRemoteStep /\ ParamRemoteAvailable
  /\ ~safeParse(TheParamDef.schema, ParamRemoteValue).success
C9_RemoteRejected ==
  ParamRemoteRejected
    => /\ result.kind = "return"
       /\ call.op \in ParamStateOps =>
            result.state = ParamState(TheParamDef.fallback, "fallback", "ZodError", Absent)
       /\ ResultValue = TheParamDef.fallback /\ ResultValue # ParamRemoteValue
       /\ result.getCalls = 1
C9_Witness ==
  /\ ParamRemoteRejected /\ call.op = "getParamState" /\ call.provider.o = "returns"
  /\ result.state.error = "ZodError" /\ result.state.source = "fallback"

\* C10: a URL, test-override or static-override candidate that fails the
\* schema is kept: the state is {value: the mismatched value, source: its
\* source, error, fallback: declared fallback}; ?fp.test_store.count=abc
\* gives {value: "abc", source: 'url', error, fallback: 0}.
ParamLocalMismatch ==
  /\ IsParamCall /\ DeclaredParam
  /\ ParamCandidate.source \in {"url", "test", "override"} /\ ~ParamCandidateFits
CountAbc ==
  /\ IsParamCall /\ call.storeKey = <<"test_store">> /\ call.paramKey = <<"count">>
  /\ ParamQuery = <<Entry(<<"fp", "test_store", "count">>, "abc")>>
C10_LocalMismatchKept ==
  /\ ParamLocalMismatch
       => /\ result.kind = "return"
          /\ call.op \in ParamStateOps =>
               result.state = ParamState(ParamCandidate.value, ParamCandidate.source,
                                         "ZodError", TheParamDef.fallback)
          /\ ResultValue = ParamCandidate.value /\ ResultValue # TheParamDef.fallback
  /\ CountAbc /\ call.op \in ParamStateOps
       => result.state = ParamState(Str("abc"), "url", "ZodError", Num(0))
C10_Witness ==
  /\ CountAbc /\ call.op = "getParamState" /\ ParamLocalMismatch
  /\ result.state.value = Str("abc") /\ result.state.fallback = Num(0)

\* A parameter lookup that got as far as the schema validation, and the
\* writer its mismatch report went to: resolve writes with console.error and
\* never asks getLogger() for the installed logger.
ParamValidated ==
  /\ IsParamCall /\ DeclaredParam
  /\ ParamCandidate.source \in {"url", "test", "override"} \/ ParamHasSnapshot
MismatchSink == IF result.consoleError THEN "console.error" ELSE "none"

\* C11 as stated: a candidate that fails the schema is reported to the
\* logger installed through initStatsigClient or setLogger (the default
\* writer when none was installed).
C11_MismatchToInstalledLogger ==
  ParamValidated /\ ~ParamCandidateFits => MismatchSink = getLogger
\* C11 as the code has it: a candidate that fails the schema is reported
\* with console.error, whichever logger is installed, and the lookup does not
\* throw; a candidate that passes is reported nowhere.
C11_MismatchToConsoleError ==
  ParamValidated
    => /\ result.kind = "return"
       /\ MismatchSink = IF ParamCandidateFits THEN "none" ELSE "console.error"
C11_Witness ==
  /\ ParamValidated /\ ~ParamCandidateFits /\ currentLogger = "customLogger"
  /\ result.kind = "return" /\ result.consoleError

\* C12: once the client singleton exists, a call of initStatsigClient, with
\* any client key and options, returns that same client and does nothing
\* else: it constructs no client, sets no bootstrap data, does not run
\* initializeSync, logs nothing, and leaves the installed logger and the
\* test-environment predicate as they are.
LaterInit == pc = "idle" /\ client # NullClient /\ call'.op = "initStatsigClient"
C12_InitIsIdempotent ==
  [][LaterInit =>
       /\ client' = client
       /\ result'.kind = "return" /\ result'.client = client
       /\ ~result'.constructed /\ ~result'.setData /\ ~result'.initializeSync
       /\ result'.logged = "nothing"
       /\ currentLogger' = currentLogger /\ testEnvDetector' = testEnvDetector]_vars
C12_Witness ==
  /\ pc = "returned" /\ call.op = "initStatsigClient" /\ ~result.constructed
  /\ call.clientKey # client.clientKey /\ result.client = client
  /\ call.logger = "customLogger" /\ currentLogger = "defaultLogger"
  /\ call.isTestEnv = "true" /\ testEnvDetector # "constTrue"
  /\ call.bootstrap = "data"

\* C13: getParameterStore is called when the handle is created and by no
\* get / getState on the handle afterwards, whatever the fetch at creation
\* came to.
C13_HandleNeverFetchesAgain ==
  IsParamCall /\ call.op \in HandleOps => result.storeCalls = 0
\* What does hold: a handle that holds a snapshot never fetches again.
HandleWithSnapshotNeverFetches ==
  IsParamCall /\ call.op \in HandleOps /\ handle.cachedStore.given = "store"
    => result.storeCalls = 0

(***************************************************************************)
(* The URL parsers on their own                                            *)
(***************************************************************************)
UrlFlagNames ==
  {<<"ff", "feature_a">>, <<"ff", "feature_d">>, <<"ff", "a", "b">>, <<"FF", "feature_a">>,
   <<"feature_a">>, <<"ff">>}
UrlFlagRaws == {"1", "true", " TRUE ", "True", " 1", "0", "YES", ""}
UrlFlagSearches ==
  {NoSearch} \cup
  {Search(es) : es \in SeqsUpTo({Entry(n, r) : n \in UrlFlagNames, r \in UrlFlagRaws},
                                MaxQueryLen)}

\* parseUrlOverrides(search), the exported function of flags.ts
parseUrlOverridesCall ==
  /\ pc = "idle"
  /\ \E search \in UrlFlagSearches, location \in FlagLocations :
       /\ search.given \/ ~hasWindow => location = <<>>
       /\ call' = [op |-> "parseUrlOverrides", search |-> search, location |-> location]
       /\ result' = [kind |-> "return", overrides |-> parseUrlOverrides(search, location)]
  /\ pc' = "returned"
  /\ UNCHANGED <<client, testEnvDetector, currentLogger, hasWindow, handle>>

\* tryCoerce(raw, def) on its own: def undefined, or any declared definition.
CoerceRaws ==
  {"42", " 42 ", "150", "abc", "true", "false", "null", "",
   "{\"text\":\"URL text\",\"count\":7}", "{\"count\":\"seven\"}", "{}", "[1,2]",
   "{bad}", "[bad]"}
CoerceDefs ==
  {NoParamDef} \cup
  {[has |-> TRUE, def |-> testStores[pair[1]][pair[2]]] :
     pair \in {pr \in ParamPairs : ParamDefOf(pr[1], pr[2]).has}}
tryCoerceCall ==
  /\ pc = "idle"
  /\ \E raw \in CoerceRaws, d \in CoerceDefs :
       /\ call' = [op |-> "tryCoerce", raw |-> raw, hasDef |-> d.has, def |-> d.def]
       /\ result' = [kind |-> "return", value |-> tryCoerce(raw, d.has, d.def)]
  /\ pc' = "returned"
  /\ UNCHANGED <<client, testEnvDetector, currentLogger, hasWindow, handle>>

\* ParamStore.parseUrlOverrides(search) on its own.
UrlParamEntries ==
  { Entry(<<"fp", "test_store", "count">>, "42"),
    Entry(<<"fp", "test_store", "text">>, "abc"),
    Entry(<<"fp", "pricing", "discount">>, "150"),
    Entry(<<"fp", "test_store">>, "{\"text\":\"URL text\",\"count\":7}"),
    Entry(<<"fp", "test_store">>, "{\"count\":\"seven\"}"),
    Entry(<<"fp", "test_store">>, "{\"count\":{\"a\":1}}"),
    Entry(<<"fp", "test_store">>, "{\"count\":{\"b\":2}}"),
    Entry(<<"fp", "test_store">>, "{bad}") }
UrlParamSearches ==
  {NoSearch} \cup {Search(es) : es \in SeqsUpTo(UrlParamEntries, MaxQueryLen)}
ParamStore_parseUrlOverridesCall ==
  /\ pc = "idle"
  /\ \E search \in UrlParamSearches, location \in ParamLocations :
       /\ search.given \/ ~hasWindow => location = <<>>
       /\ call' = [op |-> "ParamStore.parseUrlOverrides", search |-> search,
                    location |-> location]
       /\ result' = [kind |-> "return",
                      overrides |-> ParamStore_parseUrlOverrides(search, location)]
  /\ pc' = "returned"
  /\ UNCHANGED <<client, testEnvDetector, currentLogger, hasWindow, handle>>

NextUrl ==
  parseUrlOverridesCall \/ tryCoerceCall \/ ParamStore_parseUrlOverridesCall \/ Return
SpecUrl == Init /\ [][NextUrl]_vars

\* The query string a parser call worked on, and the raw values that read
\* "1" or "true" once trimmed and lower-cased.
IsFlagParse == pc = "returned" /\ call.op = "parseUrlOverrides"
UrlQuery == IF call.search.given THEN call.search.entries ELSE call.location
TrueRaws == {"1", "true", " TRUE ", "True", " 1"}
FlagEntryHits(key) ==
  {i \in 1..Len(UrlQuery) : UrlQuery[i].name = <<"ff">> \o key /\ key # <<>>}
FlagEntryLast(key) == CHOOSE i \in FlagEntryHits(key) : \A j \in FlagEntryHits(key) : j <= i

\* C14: parseUrlOverrides holds an entry for exactly the names that start
\* with 'ff.', keyed by the rest of the name, true exactly when the raw value
\* of the (last) query parameter of that name, trimmed and lower-cased, is
\* "1" or "true"; an absent or empty query string gives the empty mapping.
C14_FlagUrlMapping ==
  IsFlagParse
    => /\ DOMAIN result.overrides =
            {Tail(UrlQuery[i].name) : i \in {j \in 1..Len(UrlQuery) :
                                              /\ Len(UrlQuery[j].name) >= 2
                                              /\ UrlQuery[j].name[1] = "ff"}}
       /\ \A key \in DOMAIN result.overrides :
            result.overrides[key] = (UrlQuery[FlagEntryLast(key)].value \in TrueRaws)
       /\ UrlQuery = <<>> => result.overrides = <<>>
C14_Witness ==
  /\ IsFlagParse /\ Len(UrlQuery) = 2
  /\ UrlQuery[1] = Entry(<<"ff", "feature_a">>, " TRUE ")
  /\ UrlQuery[2].name = <<"feature_a">>
  /\ result.overrides = (<<"feature_a">> :> TRUE)

\* What a raw value is, read apart from the parser: the well-formed JSON
\* objects and arrays with their values, and the numerals with theirs.
IsCoerce == pc = "returned" /\ call.op = "tryCoerce"
JsonValues ==
  ("{\"text\":\"URL text\",\"count\":7}" :>
     Obj((<<"text">> :> Str("URL text")) @@ (<<"count">> :> Num(7)))) @@
  ("{\"count\":\"seven\"}" :> Obj(<<"count">> :> Str("seven"))) @@
  ("{\"count\":{\"a\":1}}" :> Obj(<<"count">> :> Obj(<<"a">> :> Num(1)))) @@
  ("{\"count\":{\"b\":2}}" :> Obj(<<"count">> :> Obj(<<"b">> :> Num(2)))) @@
  ("{}" :> EmptyObj) @@
  ("[1,2]" :> Arr((<<"0">> :> Num(1)) @@ (<<"1">> :> Num(2))))
Numerals == ("42" :> 42) @@ (" 42 " :> 42) @@ ("150" :> 150) @@ ("" :> 0)
Literals == ("true" :> Bool(TRUE)) @@ ("false" :> Bool(FALSE)) @@ ("null" :> Null)
SchemaAccepts(value) == call.hasDef /\ safeParse(call.def.schema, value).success

\* C15: tryCoerce takes a raw value that is a JSON object or array as the
\* parsed object or array; otherwise, with a definition known, the parsed
\* number if the schema accepts it, then the literal true / false / null if
\* the schema accepts that value; and in every other case the raw string,
\* unchanged.
C15_CoercionChain ==
  IsCoerce
    => result.value =
         IF call.raw \in DOMAIN JsonValues THEN JsonValues[call.raw]
         ELSE IF call.raw \in DOMAIN Numerals /\ SchemaAccepts(Num(Numerals[call.raw]))
           THEN Num(Numerals[call.raw])
         ELSE IF call.raw \in DOMAIN Literals /\ SchemaAccepts(Literals[call.raw])
           THEN Literals[call.raw]
         ELSE Str(call.raw)
C15_Witness ==
  /\ IsCoerce /\ call.raw = "42" /\ call.hasDef /\ call.def.schema = ZNumber
  /\ result.value = Num(42)

\* Query parameters with JSON that does not parse: fp.<store>=... for the
\* store of the call, and fp.<store>.<param>=... for its pair.
BadJson == {"{bad}", "[bad]"}
MalformedWhole(e) == e.name = <<"fp">> \o call.storeKey /\ e.value \in BadJson
MalformedDotted(e) ==
  e.name = <<"fp">> \o call.storeKey \o call.paramKey /\ e.value \in BadJson

\* The query parameters that set the pair of the call: a dotted name that
\* begins with the pair, or a whole-store object with the parameter in it.
TouchesPair(e) ==
  \/ /\ Len(e.name) >= 3
     /\ SubSeq(e.name, 1, 3) = <<"fp">> \o call.storeKey \o call.paramKey
  \/ /\ e.name = <<"fp">> \o call.storeKey
     /\ e.value \in DOMAIN JsonValues /\ JsonValues[e.value].k = "object"
     /\ call.paramKey \in DOMAIN JsonValues[e.value].f
PairHits == {i \in 1..Len(ParamQuery) : TouchesPair(ParamQuery[i])}
PairLast == CHOOSE i \in PairHits : \A j \in PairHits : j <= i

\* The same call on another query string, as the caller sees its outcome.
ResolvedOn(entries) ==
  LET r == ParamStore_resolve(call.storeKey, call.paramKey, call.statsigStore,
                              Search(entries), call.location, call.dyn, call.provider)
  IN IF call.op \in ParamValueOps /\ r.kind = "return"
       THEN [r EXCEPT !.state = r.state.value] ELSE r

IsParamParse == pc = "returned" /\ call.op = "ParamStore.parseUrlOverrides"
AssignedBy(e, store, param) ==
  IF e.name = <<"fp">> \o store \o param
    THEN tryCoerce(e.value, ParamDefOf(store, param).has, ParamDefOf(store, param).def)
  ELSE IF /\ e.name = <<"fp">> \o store
          /\ e.value \in DOMAIN JsonValues /\ JsonValues[e.value].k = "object"
          /\ param \in DOMAIN JsonValues[e.value].f
    THEN JsonValues[e.value].f[param]
  ELSE Undefined
Setters(store, param) ==
  {i \in 1..Len(UrlQuery) : AssignedBy(UrlQuery[i], store, param) # Undefined}
LastSetter(store, param) ==
  CHOOSE i \in Setters(store, param) : \A j \in Setters(store, param) : j <= i
LastWins(store, param) ==
  IF Setters(store, param) = {} THEN Undefined
  ELSE AssignedBy(UrlQuery[LastSetter(store, param)], store, param)

\* The value of the pair after the first n query parameters, with the
\* whole-store form merging an object into an object already there.
RECURSIVE MergedAfter(_, _, _)
MergedAfter(store, param, n) ==
  IF n = 0 THEN Undefined
  ELSE LET prev == MergedAfter(store, param, n - 1)
           v == AssignedBy(UrlQuery[n], store, param)
       IN IF v = Undefined THEN prev
          ELSE IF UrlQuery[n].name = <<"fp">> \o store /\ v.k = "object" /\ prev.k = "object"
            THEN Obj([k \in DOMAIN prev.f \cup DOMAIN v.f |->
                        IF k \in DOMAIN v.f THEN v.f[k] ELSE prev.f[k]])
          ELSE v
ParsedPairs ==
  {<<<<"test_store">>, <<"text">>>>, <<<<"test_store">>, <<"count">>>>,
   <<<<"test_store">>, <<"size">>>>, <<<<"pricing">>, <<"discount">>>>,
   <<<<"pricing">>, <<"currency">>>>}
ParsedValue(pair) == Prop(Prop(result.overrides, pair[1]), pair[2])

ReturnedState ==
  /\ pc = "returned" /\ call.op \in FlagStateOps \cup ParamStateOps
  /\ result.kind = "return"
DeclaresTestOverride ==
  IF call.op \in FlagStateOps
    THEN DeclaredFlag /\ mockFlags[call.key].testOverride # Undefined
    ELSE DeclaredParam /\ TheParamDef.testOverride # Undefined
PredicateTrue ==
  \/ testEnvDetector = "constTrue"
  \/ testEnvDetector = "dynamic" /\ call.dyn

\* C18: a call of initStatsigClient that supplies no isTestEnv leaves the
\* predicate as it is, and without a predicate isTestEnv() is false and no
\* lookup returns source 'test'; a lookup returns source 'test' only when
\* the predicate is true at that call and the definition declares
\* testOverride.
C18_TestPredicateDefaultsFalse ==
  /\ [](/\ testEnvDetector = "null" => ~isTestEnv(TRUE) /\ ~isTestEnv(FALSE)
        /\ ReturnedState /\ result.state.source = "test"
             => testEnvDetector # "null" /\ PredicateTrue /\ DeclaresTestOverride)
  /\ [][call'.op = "initStatsigClient" /\ call'.isTestEnv = "undefined"
          => testEnvDetector' = testEnvDetector]_vars
C18_Witness ==
  /\ ReturnedState /\ client # NullClient /\ testEnvDetector = "null"
  /\ DeclaresTestOverride /\ result.state.source \in {"remote", "fallback"}

\* A dotted query parameter fp.<store>.<param>=... that names another pair
\* than the one the call asks for, <param> being all that follows the store.
NamesOtherPair(e) ==
  /\ Len(e.name) >= 3 /\ e.name[1] = "fp"
  /\ <<e.name[2]>> # call.storeKey \/ SubSeq(e.name, 3, Len(e.name)) # call.paramKey

\* C19: a dotted query parameter changes the outcome for its own pair
\* only: a lookup comes out as on the query string without the dotted
\* parameters that name other pairs.
C19_DottedOverrideScoped ==
  IsParamCall /\ DeclaredParam /\ call.search.given
    => result = ResolvedOn(SelectSeq(call.search.entries, LAMBDA e : ~NamesOtherPair(e)))
\* What does hold: a dotted query parameter of another store, or of another
\* first segment after the store, changes nothing.
NamesOtherHead(e) ==
  /\ Len(e.name) >= 3 /\ e.name[1] = "fp"
  /\ <<e.name[2]>> # call.storeKey \/ <<e.name[3]>> # call.paramKey
DottedOverrideScopedByHead ==
  IsParamCall /\ DeclaredParam /\ call.search.given
    => result = ResolvedOn(SelectSeq(call.search.entries, LAMBDA e : ~NamesOtherHead(e)))

\* C20: in a ParamState the lookup returns, error is there exactly when
\* the chosen candidate failed the schema, a state with source 'remote' has
\* no error, fallback is there only along with error, and a state without
\* error has the members value and source alone, value being what the schema
\* parsed.
C20_ParamStateShape ==
  IsParamCall /\ call.op \in ParamStateOps /\ result.kind = "return" =>
    LET st == result.state
        parsed == safeParse(TheParamDef.schema, ParamCandidate.value)
    IN /\ st.error # "absent" <=> ~parsed.success
       /\ st.source = "remote" => st.error = "absent"
       /\ st.fallback # Absent => st.error # "absent"
       /\ st.error = "absent" => st.fallback = Absent /\ st.value = parsed.data
       /\ st.source \in {"url", "test", "override", "remote", "fallback"}
C20_Witness ==
  /\ IsParamCall /\ call.op = "getParamState" /\ result.kind = "return"
  /\ result.state.source = "remote" /\ result.state.error = "absent"
  /\ result.state.fallback = Absent /\ result.state.value = ParamRemoteValue

\* A lookup of a declared key or pair that something above the remote step
\* decides, or that the caller handed the gate / the snapshot.
FlagDecidedLocally ==
  /\ IsFlagCall /\ DeclaredFlag
  /\ FlagUrlAvailable \/ FlagTestAvailable \/ FlagOverrideAvailable \/ call.gate.given
ParamDecidedLocally ==
  /\ IsParamCall /\ call.op \in {"getParamState", "getParam"} /\ DeclaredParam
  /\ \/ ParamUrlAvailable \/ ParamTestAvailable \/ ParamOverrideAvailable
     \/ ParamSnapshotPassed

\* C21: when a URL override, an active test override or a static override
\* decides a flag or parameter lookup, or the caller passed the gate or the
\* snapshot, getFeatureGate / getParameterStore is not called, and the
\* lookup returns, with or without the client singleton.
C21_ProviderOnlyAtRemoteStep ==
  /\ FlagDecidedLocally => result.kind = "return" /\ result.gateCalls = 0
  /\ ParamDecidedLocally => result.kind = "return" /\ result.storeCalls = 0
C21_Witness ==
  /\ ParamDecidedLocally /\ client = NullClient
  /\ ParamOverrideAvailable /\ ~ParamUrlAvailable /\ ~ParamSnapshotPassed
  /\ result.kind = "return" /\ result.storeCalls = 0

====
